---- MODULE Spec2Model ----
(***************************************************************************)
(* Model of the event tracker of src/roi/business_logic.py: class Event    *)
(* and class RoIBusinessLogic.  One action, Process, models one call of    *)
(* RoIBusinessLogic.process with one detection payload.                    *)
(*                                                                         *)
(* A detection payload is opaque to the tracker apart from its             *)
(* "predictions" list; the payload of the g-th call is represented by the  *)
(* number g (its 'frame' key) and its predictions by the sequence of the   *)
(* classId values.  str(uuid4()) is represented by a counter: the n-th     *)
(* identifier drawn is n.  _event_dict is a Python dict, which iterates in *)
(* insertion order: it is a sequence of entries [k, event].                *)
(*                                                                         *)
(* Spec feeds the tracker well-formed payloads.  SpecMalformed adds calls  *)
(* whose predictions list holds a prediction without the key classId.      *)
(* SpecShadow runs, next to the tracker, one tracker per class that is fed *)
(* only the predictions of that class.  SpecAlerta applies Pipeline.alerta *)
(* of src/roi/pipeline.py to a predictions list.                           *)
(***************************************************************************)
EXTENDS Integers, Sequences, FiniteSets, TLC

\* ---------------------------------------------------------------- bounds
MaxFrames == 4
MaxPreds == 2
MaxTotalFrames == 2
MaxTtl == 2
MaxAlertaLen == 3

Classes == {"car", "dog"}

\* The value process returns: None, or a list of signals.
None == [is_none |-> TRUE, list |-> <<>>]

List(signals) == [is_none |-> FALSE, list |-> signals]

VARIABLES
    total_frames,     \* self._total_frames
    ttl,              \* self._ttl
    event_dict,       \* self._event_dict, in insertion order
    active_events,    \* self._active_events: class -> event id
    uuid_count,       \* number of uuid4() values drawn so far
    frame,            \* number of process calls made so far
    predictions,      \* detection["predictions"] of the latest call
    result,           \* value returned by the latest call
    \* history of the inputs and of the signals returned so far
    seen_once,        \* class -> it occurred exactly once in every frame so far
    dup_free,         \* no frame so far listed a class more than once
    absent_run,       \* class -> number of latest consecutive frames without it
    present_run,      \* class -> number of latest consecutive frames with it
    window_hits,      \* class -> frames with it since it was last absent for
                      \*          ttl consecutive frames
    started_open,     \* class -> a Started was returned and no Ended since
    last_started_id,  \* class -> event id of the latest Started (0: none)
    started_ids,      \* event ids of all Started signals returned so far
    starts_emitted,   \* class -> number of Started signals returned so far
    ends_emitted,     \* class -> number of Ended signals returned so far
    raised,           \* the latest call ended in a KeyError
    shadow,           \* class -> the tracker fed only the predictions of it
    alerta_predictions,  \* the argument of Pipeline.alerta
    alerta_result     \* the value Pipeline.alerta returned

vars == <<total_frames, ttl, event_dict, active_events, uuid_count, frame,
          predictions, result, seen_once, dup_free, absent_run, present_run,
          window_hits, started_open, last_started_id, started_ids,
          starts_emitted, ends_emitted, raised, shadow,
          alerta_predictions, alerta_result>>

\* ------------------------------------------------------------ dict helpers
Keys(d) == {d[i].k : i \in DOMAIN d}

Index(d, key) == CHOOSE i \in DOMAIN d : d[i].k = key

Get(d, key) == d[Index(d, key)].event

Range(s) == {s[i] : i \in DOMAIN s}

Count(c, s) == Cardinality({i \in DOMAIN s : s[i] = c})

\* ------------------------------------------------------------------- Event
Event(detection, ttl_) ==
    [detection |-> detection,
     num_detected_frames |-> 1,
     creation_time |-> detection,
     ttl |-> ttl_,
     current_ttl |-> ttl_]

_reset_ttl(event) == [event EXCEPT !.current_ttl = event.ttl]

no_detection(event) == [event EXCEPT !.current_ttl = event.current_ttl - 1]

\* new_detection that forgets self._reset_ttl()
new_detection_no_reset(event, detection) ==
    [event EXCEPT !.detection = detection,
                  !.num_detected_frames = event.num_detected_frames + 1]

\* new_detection that keeps the stored detection
new_detection_keep_detection(event, detection) ==
    _reset_ttl([event EXCEPT !.num_detected_frames = event.num_detected_frames + 1])

new_detection(event, detection) ==
    _reset_ttl([event EXCEPT !.detection = detection,
                             !.num_detected_frames = event.num_detected_frames + 1])

\* is_expired with < in place of <=
is_expired_strict(event) == event.current_ttl < 0

is_expired(event) == event.current_ttl <= 0

\* -------------------------------------------------------------- signals
\* The field k is the class the signal is about.  It is no field of the
\* signal objects of the program; the properties use it to tell the signals
\* of different classes apart.
EventStartedSignal(event_id, detection, key) ==
    [type |-> "Started", event_id |-> event_id, detection |-> detection, k |-> key]

EventEndedSignal(event_id, detection, key) ==
    [type |-> "Ended", event_id |-> event_id, detection |-> detection, k |-> key]

\* uuid4(): the identifier drawn after n earlier draws
uuid4(n) == n + 1

\* -------------------------------------------------------- RoIBusinessLogic
\* _is_start_event without the test of self._active_events
_is_start_event_no_active_test(key, event, active, total_frames_) ==
    IF event.num_detected_frames < total_frames_ THEN FALSE
    ELSE TRUE

\* _is_start_event with the threshold off by one
_is_start_event_early(key, event, active, total_frames_) ==
    IF event.num_detected_frames < total_frames_ - 1 THEN FALSE
    ELSE IF key \in DOMAIN active THEN FALSE
    ELSE TRUE

_is_start_event(key, event, active, total_frames_) ==
    IF event.num_detected_frames < total_frames_ THEN FALSE
    ELSE IF key \in DOMAIN active THEN FALSE
    ELSE TRUE

\* _is_end_event that never reports an end
_is_end_event_never(key, active) == FALSE

_is_end_event(key, active) ==
    IF key \notin DOMAIN active THEN FALSE ELSE TRUE

\* StartStep that draws a second uuid for self._active_events[k]
StartStep_two_ids(st, e, total_frames_) ==
    IF _is_start_event(e.k, e.event, st.active_events, total_frames_)
    THEN LET event_id == uuid4(st.uuid_count) IN
         [events |-> Append(st.events,
                            EventStartedSignal(event_id, e.event.detection, e.k)),
          active_events |-> [x \in DOMAIN st.active_events \cup {e.k} |->
                               IF x = e.k THEN uuid4(st.uuid_count + 1)
                               ELSE st.active_events[x]],
          uuid_count |-> st.uuid_count + 2]
    ELSE st

\* StartStep that does not record the class in self._active_events
StartStep_no_record(st, e, total_frames_) ==
    IF _is_start_event(e.k, e.event, st.active_events, total_frames_)
    THEN LET event_id == uuid4(st.uuid_count) IN
         [events |-> Append(st.events,
                            EventStartedSignal(event_id, e.event.detection, e.k)),
          active_events |-> st.active_events,
          uuid_count |-> st.uuid_count + 1]
    ELSE st

\* One iteration of the loop of _get_starting_events over entry e; st holds
\* the list events, self._active_events and the number of uuids drawn.
StartStep(st, e, total_frames_) ==
    IF _is_start_event(e.k, e.event, st.active_events, total_frames_)
    THEN LET event_id == uuid4(st.uuid_count) IN
         [events |-> Append(st.events,
                            EventStartedSignal(event_id, e.event.detection, e.k)),
          active_events |-> [x \in DOMAIN st.active_events \cup {e.k} |->
                               IF x = e.k THEN event_id ELSE st.active_events[x]],
          uuid_count |-> st.uuid_count + 1]
    ELSE st

RECURSIVE StartLoop(_, _, _, _)
StartLoop(d, i, st, total_frames_) ==
    IF i > Len(d) THEN st
    ELSE StartLoop(d, i + 1, StartStep(st, d[i], total_frames_), total_frames_)

_get_starting_events(d, active, uuids, total_frames_) ==
    StartLoop(d, 1, [events |-> <<>>, active_events |-> active,
                     uuid_count |-> uuids], total_frames_)

\* EndStep that signals the end of every expired event
EndStep_every_expired(st, e) ==
    IF ~is_expired(e.event) THEN st
    ELSE [events |-> Append(st.events,
                            EventEndedSignal(IF e.k \in DOMAIN st.active_events
                                             THEN st.active_events[e.k] ELSE 0,
                                             e.event.detection, e.k)),
          del_events |-> Append(st.del_events, e.k),
          active_events |-> [x \in DOMAIN st.active_events \ {e.k} |->
                               st.active_events[x]]]

\* One iteration of the first loop of _get_ending_events over entry e; st
\* holds the lists events and del_events and self._active_events.
EndStep(st, e) ==
    IF ~is_expired(e.event) THEN st
    ELSE IF _is_end_event(e.k, st.active_events)
    THEN [events |-> Append(st.events,
                            EventEndedSignal(st.active_events[e.k],
                                             e.event.detection, e.k)),
          del_events |-> Append(st.del_events, e.k),
          active_events |-> [x \in DOMAIN st.active_events \ {e.k} |->
                               st.active_events[x]]]
    ELSE [st EXCEPT !.del_events = Append(st.del_events, e.k)]

RECURSIVE EndLoop(_, _, _)
EndLoop(d, i, st) ==
    IF i > Len(d) THEN st
    ELSE EndLoop(d, i + 1, EndStep(st, d[i]))

\* _get_ending_events without its second loop
DelEvents_none(d, del_events) == d

\* the second loop: del self._event_dict[k] for every k of del_events
DelEvents(d, del_events) ==
    LET dead == Range(del_events)
        Keep(e) == e.k \notin dead
    IN SelectSeq(d, Keep)

_get_ending_events(d, active) ==
    LET st == EndLoop(d, 1, [events |-> <<>>, del_events |-> <<>>,
                             active_events |-> active])
    IN [events |-> st.events,
        active_events |-> st.active_events,
        event_dict |-> DelEvents(d, st.del_events)]

\* UpdateStep that counts a class once per frame: a class already updated
\* with this detection is left alone
UpdateStep_once_per_frame(d, c, detection, ttl_) ==
    IF c \notin Keys(d)
    THEN Append(d, [k |-> c, event |-> Event(detection, ttl_)])
    ELSE IF Get(d, c).detection = detection THEN d
    ELSE [d EXCEPT ![Index(d, c)].event = new_detection(@, detection)]

\* The first loop of process: one iteration for prediction classId c.
UpdateStep(d, c, detection, ttl_) ==
    IF c \notin Keys(d)
    THEN Append(d, [k |-> c, event |-> Event(detection, ttl_)])
    ELSE [d EXCEPT ![Index(d, c)].event = new_detection(@, detection)]

RECURSIVE UpdateLoop(_, _, _, _)
UpdateLoop(d, preds, detection, ttl_) ==
    IF preds = <<>> THEN d
    ELSE UpdateLoop(UpdateStep(d, Head(preds), detection, ttl_),
                    Tail(preds), detection, ttl_)

\* Decay without the loop over classes_not_in_frame
Decay_none(d, current_frame_classes) == d

\* Decay with the set difference inverted: no_detection for the classes in
\* the frame
Decay_in_frame(d, current_frame_classes) ==
    [i \in DOMAIN d |->
        IF d[i].k \in current_frame_classes
        THEN [d[i] EXCEPT !.event = no_detection(@)]
        ELSE d[i]]

\* Decay that calls no_detection for every class when a class is missing
Decay_all_when_any(d, current_frame_classes) ==
    LET classes_not_in_frame == Keys(d) \ current_frame_classes IN
    [i \in DOMAIN d |->
        IF classes_not_in_frame # {}
        THEN [d[i] EXCEPT !.event = no_detection(@)]
        ELSE d[i]]

\* The second loop of process: no_detection for the classes not in the frame.
Decay(d, current_frame_classes) ==
    LET classes_not_in_frame == Keys(d) \ current_frame_classes IN
    [i \in DOMAIN d |->
        IF d[i].k \in classes_not_in_frame
        THEN [d[i] EXCEPT !.event = no_detection(@)]
        ELSE d[i]]

\* process returning end_events + start_events
Returned_ends_first(start_events, end_events) ==
    LET all_events == end_events \o start_events IN
    IF all_events # <<>> THEN List(all_events) ELSE None

\* process returning all_events as it is
Returned_list_always(start_events, end_events) ==
    List(start_events \o end_events)

\* all_events if all_events else None
Returned(start_events, end_events) ==
    LET all_events == start_events \o end_events IN
    IF all_events # <<>> THEN List(all_events) ELSE None

\* process(detection): the state and the value it returns
process(d, active, uuids, detection, preds, total_frames_, ttl_) ==
    LET current_frame_classes == Range(preds)
        updated == Decay(UpdateLoop(d, preds, detection, ttl_),
                         current_frame_classes)
        started == _get_starting_events(updated, active, uuids, total_frames_)
        ended == _get_ending_events(updated, started.active_events)
    IN [event_dict |-> ended.event_dict,
        active_events |-> ended.active_events,
        uuid_count |-> started.uuid_count,
        result |-> Returned(started.events, ended.events)]

\* ---------------------------------------------------- history of signals
Signals(r) == IF r.is_none THEN <<>> ELSE r.list

StartedOf(r, c) == {i \in DOMAIN Signals(r) :
                      Signals(r)[i].type = "Started" /\ Signals(r)[i].k = c}

EndedOf(r, c) == {i \in DOMAIN Signals(r) :
                    Signals(r)[i].type = "Ended" /\ Signals(r)[i].k = c}

\* index of the last signal of class c in r, 0 if there is none
LastOf(r, c) ==
    LET is == StartedOf(r, c) \cup EndedOf(r, c) IN
    IF is = {} THEN 0 ELSE CHOOSE i \in is : \A j \in is : j <= i

LastStartedOf(r, c) ==
    LET is == StartedOf(r, c) IN
    IF is = {} THEN 0 ELSE CHOOSE i \in is : \A j \in is : j <= i

\* --------------------------------------------------------------- the model
Payloads == UNION {[1..n -> Classes] : n \in 0..MaxPreds}

\* a tracker after __init__, as the shadow of a class holds it
NewTracker ==
    [event_dict |-> <<>>, active_events |-> <<>>, uuid_count |-> 0,
     result |-> None]

NotCalled == "not called"

InitTracker ==
    /\ total_frames \in 1..MaxTotalFrames
    /\ ttl \in 0..MaxTtl
    /\ event_dict = <<>>
    /\ active_events = <<>>
    /\ uuid_count = 0
    /\ frame = 0
    /\ predictions = <<>>
    /\ result = None
    /\ seen_once = [c \in Classes |-> TRUE]
    /\ dup_free = TRUE
    /\ absent_run = [c \in Classes |-> 0]
    /\ present_run = [c \in Classes |-> 0]
    /\ window_hits = [c \in Classes |-> 0]
    /\ started_open = [c \in Classes |-> FALSE]
    /\ last_started_id = [c \in Classes |-> 0]
    /\ started_ids = {}
    /\ starts_emitted = [c \in Classes |-> 0]
    /\ ends_emitted = [c \in Classes |-> 0]
    /\ raised = FALSE
    /\ shadow = [c \in Classes |-> NewTracker]

Init ==
    /\ InitTracker
    /\ alerta_predictions = <<>>
    /\ alerta_result = NotCalled

\* one call of process with a well-formed payload
Track ==
    /\ frame < MaxFrames
    /\ \E preds \in Payloads :
       \E out \in {process(event_dict, active_events, uuid_count, frame + 1,
                            preds, total_frames, ttl)} :
         LET r == out.result
         IN /\ event_dict' = out.event_dict
            /\ active_events' = out.active_events
            /\ uuid_count' = out.uuid_count
            /\ result' = r
            /\ predictions' = preds
            /\ frame' = frame + 1
            /\ seen_once' = [c \in Classes |-> seen_once[c] /\ Count(c, preds) = 1]
            /\ dup_free' = (dup_free /\ \A c \in Classes : Count(c, preds) <= 1)
            /\ absent_run' = [c \in Classes |->
                                IF c \in Range(preds) THEN 0 ELSE absent_run[c] + 1]
            /\ present_run' = [c \in Classes |->
                                 IF c \in Range(preds) THEN present_run[c] + 1 ELSE 0]
            /\ window_hits' = [c \in Classes |->
                                 IF c \notin Range(preds) THEN window_hits[c]
                                 ELSE IF absent_run[c] >= ttl THEN 1
                                 ELSE window_hits[c] + 1]
            /\ started_open' = [c \in Classes |->
                                  IF LastOf(r, c) = 0 THEN started_open[c]
                                  ELSE Signals(r)[LastOf(r, c)].type = "Started"]
            /\ last_started_id' = [c \in Classes |->
                                     IF LastStartedOf(r, c) = 0 THEN last_started_id[c]
                                     ELSE Signals(r)[LastStartedOf(r, c)].event_id]
            /\ started_ids' = started_ids \cup
                                {Signals(r)[i].event_id : i \in
                                   {j \in DOMAIN Signals(r) :
                                      Signals(r)[j].type = "Started"}}
            /\ starts_emitted' = [c \in Classes |->
                                    starts_emitted[c] + Cardinality(StartedOf(r, c))]
            /\ ends_emitted' = [c \in Classes |->
                                  ends_emitted[c] + Cardinality(EndedOf(r, c))]
    /\ raised' = FALSE
    /\ UNCHANGED <<total_frames, ttl, alerta_predictions, alerta_result>>

Process ==
    /\ Track
    /\ UNCHANGED shadow

Next == Process

Spec == Init /\ [][Next]_vars

\* A prediction without the key classId, as it stands in predictions.
NoClassId == "<no classId>"

\* the well-formed predictions that precede the first malformed one
Prefixes == UNION {[1..n -> Classes] : n \in 0..(MaxPreds - 1)}

\* One call of process whose payload holds a prediction without classId:
\* pred["classId"] raises KeyError in the first loop, after the iterations
\* for the predictions before it; the rest of process is not run and no
\* value is returned.
ProcessMalformed ==
    /\ frame < MaxFrames
    /\ \E prefix \in Prefixes :
          /\ event_dict' = UpdateLoop(event_dict, prefix, frame + 1, ttl)
          /\ predictions' = Append(prefix, NoClassId)
    /\ raised' = TRUE
    /\ result' = None
    /\ frame' = frame + 1
    /\ UNCHANGED <<total_frames, ttl, active_events, uuid_count, seen_once,
                   dup_free, absent_run, present_run, window_hits,
                   started_open, last_started_id, started_ids,
                   starts_emitted, ends_emitted, shadow,
                   alerta_predictions, alerta_result>>

NextMalformed == Process \/ ProcessMalformed

SpecMalformed == Init /\ [][NextMalformed]_vars

\* -------------------------------------------------------- shadow trackers
\* the predictions of class c in preds, in their order
Project(preds, c) ==
    LET IsC(x) == x = c IN SelectSeq(preds, IsC)

\* One call of process on the tracker and, with the same detection, one call
\* on the shadow tracker of every class c, whose predictions list holds
\* only the predictions of c.  The shadow trackers have the configuration
\* of the tracker.
ProcessShadowed ==
    /\ Track
    /\ shadow' = [c \in Classes |->
                    process(shadow[c].event_dict, shadow[c].active_events,
                            shadow[c].uuid_count, frame',
                            Project(predictions', c), total_frames, ttl)]

NextShadow == ProcessShadowed

SpecShadow == Init /\ [][NextShadow]_vars

\* --------------------------------------------------------- Pipeline.alerta
\* The values alerta returns: True, False, and None when the for loop ends
\* without a return statement.
PyTrue == "True"

PyFalse == "False"

PyNone == "None"

\* The for loop of alerta from index i (counted from 1): both branches of
\* the if statement in the loop body return.
RECURSIVE AlertaLoop(_, _)
AlertaLoop(preds, i) ==
    IF i > Len(preds) THEN PyNone
    ELSE LET classId == preds[i] IN
         IF classId = "backpack" \/ classId = "handbag"
         THEN PyTrue
         ELSE PyFalse

alerta(preds) == AlertaLoop(preds, 1)

AlertaClasses == {"backpack", "handbag", "car"}

AlertaInputs == UNION {[1..n -> AlertaClasses] : n \in 0..MaxAlertaLen}

InitAlerta ==
    /\ InitTracker
    /\ alerta_predictions \in AlertaInputs
    /\ alerta_result = NotCalled

\* one call of alerta
Alerta ==
    /\ alerta_result = NotCalled
    /\ alerta_result' = alerta(alerta_predictions)
    /\ UNCHANGED <<total_frames, ttl, event_dict, active_events, uuid_count,
                   frame, predictions, result, seen_once, dup_free,
                   absent_run, present_run, window_hits, started_open,
                   last_started_id, started_ids, starts_emitted,
                   ends_emitted, raised, shadow, alerta_predictions>>

NextAlerta == Alerta

SpecAlerta == InitAlerta /\ [][NextAlerta]_vars

\* ------------------------------------------------------------- properties
Ev(c) == Get(event_dict, c)

NStarted(r, c) == Cardinality(StartedOf(r, c))

NEnded(r, c) == Cardinality(EndedOf(r, c))

\* C1 (P1, start threshold): with ttl >= 1, a class that occurred exactly
\* once in every frame since frame 1 gets no Started signal in the frames
\* before frame total_frames, exactly one in frame total_frames, and none
\* after it: the latest call returned one Started signal for it if this is
\* frame total_frames and none otherwise, and the number of Started signals
\* returned for it so far is 0 before frame total_frames and 1 from then on.
C1_StartThreshold ==
    \A c \in Classes :
        (frame >= 1 /\ seen_once[c] /\ ttl >= 1) =>
            /\ NStarted(result, c) = (IF frame = total_frames THEN 1 ELSE 0)
            /\ starts_emitted[c] = (IF frame >= total_frames THEN 1 ELSE 0)
            /\ NEnded(result, c) = 0

C1_Witness ==
    \E c \in Classes :
        /\ seen_once[c] /\ ttl >= 1 /\ total_frames >= 2
        /\ frame > total_frames
        /\ starts_emitted[c] = 1

\* C2 (P2, end threshold): with ttl >= 1, a call whose frame lacks an active
\* class returns exactly one Ended signal for it if the class has now been
\* absent for ttl consecutive frames and none if it has been absent for
\* fewer; an active class is never absent for more than ttl frames; after
\* the call that ends it the class is in neither _event_dict nor
\* _active_events; and a class that is not in _event_dict and occurs in the
\* frame gets a new Event, created in this call, whose num_detected_frames is
\* the number of its occurrences in this frame (1 for a single occurrence).
C2_EndThreshold ==
    [][\A c \in Classes :
        /\ (ttl >= 1 /\ c \in DOMAIN active_events /\ c \notin Range(predictions')) =>
              /\ absent_run'[c] <= ttl
              /\ NEnded(result', c) = (IF absent_run'[c] = ttl THEN 1 ELSE 0)
              /\ absent_run'[c] < ttl =>
                    c \in DOMAIN active_events' /\ c \in Keys(event_dict')
              /\ absent_run'[c] = ttl =>
                    c \notin DOMAIN active_events' /\ c \notin Keys(event_dict')
        /\ (ttl >= 1 /\ c \notin Keys(event_dict) /\ c \in Range(predictions')) =>
              /\ c \in Keys(event_dict')
              /\ Get(event_dict', c).num_detected_frames = Count(c, predictions')
              /\ Get(event_dict', c).creation_time = frame'
      ]_vars

\* a class was ended after ttl >= 2 frames of absence and has re-appeared
C2_Witness ==
    \E c \in Classes :
        /\ ttl >= 2 /\ ends_emitted[c] = 1 /\ starts_emitted[c] = 1
        /\ c \in Keys(event_dict)
        /\ Ev(c).num_detected_frames = 1
        /\ Ev(c).creation_time = frame

\* C3 (P4, no spurious end): a call in which the Event of a class expires
\* (it was tracked with current_ttl <= 1 and is absent from the frame, or it
\* occurs in the frame and ttl <= 0) while the class is not active (it is
\* not in _active_events before the call and no Started signal for it is
\* returned by the call) returns no Ended signal for the class and removes
\* the class from _event_dict; and every Ended signal for a class is
\* preceded by a Started signal for that class that no Ended signal follows.
C3_NoSpuriousEnd ==
    [][\A c \in Classes :
        /\ ( /\ \/ /\ c \in Keys(event_dict)
                   /\ c \notin Range(predictions')
                   /\ Ev(c).current_ttl <= 1
                \/ c \in Range(predictions') /\ ttl <= 0
             /\ c \notin DOMAIN active_events
             /\ NStarted(result', c) = 0 ) =>
              /\ NEnded(result', c) = 0
              /\ c \notin Keys(event_dict')
        /\ \A i \in EndedOf(result', c) :
              \/ started_open[c] /\ \A j \in EndedOf(result', c) : i <= j
              \/ /\ \E j \in StartedOf(result', c) : j < i
                 /\ \A j \in EndedOf(result', c) : i <= j
      ]_vars

\* a class seen but never started has just been absent for ttl frames
C3_Witness ==
    \E c \in Classes :
        /\ ttl >= 1 /\ window_hits[c] >= 1 /\ starts_emitted[c] = 0
        /\ absent_run[c] = ttl
        /\ c \notin Keys(event_dict)
        /\ NEnded(result, c) = 0

\* C4 (P3, reset on redetection): a tracked class that has been absent for
\* k frames, 1 <= k < ttl, has current_ttl = ttl - k; when it occurs in the
\* next frame, after the call its Event is the same one (same
\* creation_time, num_detected_frames increased by the number of its
\* occurrences in the frame), current_ttl equals ttl, and no Ended signal is
\* returned for it.
C4_ResetOnRedetection ==
    [][\A c \in Classes :
        (c \in Keys(event_dict) /\ absent_run[c] >= 1 /\ absent_run[c] < ttl) =>
            /\ Ev(c).current_ttl = ttl - absent_run[c]
            /\ c \in Range(predictions') =>
                  /\ c \in Keys(event_dict')
                  /\ Get(event_dict', c).current_ttl = ttl
                  /\ Get(event_dict', c).creation_time = Ev(c).creation_time
                  /\ Get(event_dict', c).num_detected_frames =
                        Ev(c).num_detected_frames + Count(c, predictions')
                  /\ NEnded(result', c) = 0
      ]_vars

\* a class re-appeared after a gap shorter than ttl and kept its Event
C4_Witness ==
    \E c \in Classes :
        /\ ttl >= 2
        /\ c \in Keys(event_dict)
        /\ absent_run[c] = 0 /\ present_run[c] = 1
        /\ Ev(c).creation_time < frame
        /\ Ev(c).num_detected_frames >= 2
        /\ Ev(c).current_ttl = ttl

\* C5: a class is a key of _active_events iff a Started signal has been
\* returned for it and no Ended signal for it has been returned after the
\* latest of them.
C5_ActiveIffStartedOpen ==
    \A c \in Classes : (c \in DOMAIN active_events) <=> started_open[c]

\* a class that was started, ended and started again
C5_Witness ==
    \E c \in Classes :
        /\ ttl >= 1
        /\ started_open[c] /\ ends_emitted[c] >= 1 /\ starts_emitted[c] >= 2

\* C6: every class that is a key of _active_events is a key of _event_dict.
C6_ActiveSubsetOfTracked ==
    DOMAIN active_events \subseteq Keys(event_dict)

\* one class is still active after another class was ended and forgotten
C6_Witness ==
    \E c, d \in Classes :
        /\ c \in DOMAIN active_events
        /\ ends_emitted[d] >= 1
        /\ d \notin DOMAIN active_events /\ d \notin Keys(event_dict)

\* C7 (phase ordering): in the list a call returns, no Ended signal stands
\* before a Started signal.
C7_StartsBeforeEnds ==
    \A i, j \in DOMAIN Signals(result) :
        (Signals(result)[i].type = "Ended" /\ Signals(result)[j].type = "Started")
            => j < i

\* one call started a class and ended another one
C7_Witness ==
    \E c, d \in Classes :
        /\ ttl >= 1
        /\ NStarted(result, c) = 1 /\ NEnded(result, d) = 1

\* C8: process never returns an empty list: it returns None exactly when the
\* call produced no signal, that is when it drew no event id (no Started) and
\* deleted no entry of _active_events (no Ended), and a non-empty list
\* otherwise; a call with no predictions on a tracker without state returns
\* None.
C8_NoneIffNoSignal ==
    [][/\ ~result'.is_none => result'.list # <<>>
       /\ result'.is_none <=>
             /\ uuid_count' = uuid_count
             /\ DOMAIN active_events \subseteq DOMAIN active_events'
       /\ (event_dict = <<>> /\ active_events = <<>> /\ predictions' = <<>>) =>
             result'.is_none
      ]_vars

\* the first call had no predictions and returned None
C8_Witness ==
    /\ frame = 1 /\ predictions = <<>> /\ result.is_none
    /\ event_dict = <<>>

\* the id of the latest Started signal for class c among the signals
\* r[1..i-1], or the one recorded before the call if there is none
StartedIdBefore(r, i, c) ==
    LET js == {j \in StartedOf(r, c) : j < i} IN
    IF js = {} THEN last_started_id[c]
    ELSE Signals(r)[CHOOSE j \in js : \A x \in js : x <= j].event_id

\* C9: every Ended signal for a class carries the event id of the latest
\* Started signal returned for that class before it, and every Started signal
\* carries an event id that no Started signal returned before it carries.
C9_EventIds ==
    [][\A i \in DOMAIN Signals(result') :
        LET sig == Signals(result')[i] IN
        /\ sig.type = "Ended" =>
              /\ StartedIdBefore(result', i, sig.k) # 0
              /\ sig.event_id = StartedIdBefore(result', i, sig.k)
        /\ sig.type = "Started" =>
              /\ sig.event_id \notin started_ids
              /\ \A j \in DOMAIN Signals(result') :
                    (j < i /\ Signals(result')[j].type = "Started") =>
                        Signals(result')[j].event_id # sig.event_id
      ]_vars

\* a class was started, ended, started again and ended again
C9_Witness ==
    \E c \in Classes :
        /\ ttl >= 1
        /\ starts_emitted[c] >= 2 /\ ends_emitted[c] >= 2
        /\ NEnded(result, c) = 1

\* C10 as claimed: with at most one prediction per class per frame, a Started
\* signal for a class is returned only if the class was present in each of
\* the total_frames latest frames.
C10_Consecutive ==
    \A c \in Classes :
        (dup_free /\ NStarted(result, c) >= 1) => present_run[c] >= total_frames

\* C10 amended: with at most one prediction per class per frame, a Started
\* signal for a class is returned only if the class is present in the
\* current frame and was present in at least total_frames frames, not
\* necessarily consecutive, since it was last absent for ttl consecutive
\* frames.
C10_TotalNotConsecutive ==
    \A c \in Classes :
        (dup_free /\ NStarted(result, c) >= 1) =>
            /\ c \in Range(predictions)
            /\ window_hits[c] >= total_frames

\* a class is started in a frame that follows a frame without it
C10_Witness ==
    \E c \in Classes :
        /\ dup_free /\ NStarted(result, c) = 1
        /\ total_frames >= 2
        /\ present_run[c] < total_frames
        /\ window_hits[c] >= total_frames

\* C11 (fail fast on a malformed payload): a call whose predictions list
\* holds a prediction without classId ends in an error, returns no signal,
\* puts no substitute class into _event_dict, and leaves _event_dict and
\* _active_events as they were before the call.
C11_RejectedAsAWhole ==
    [][raised' =>
          /\ Signals(result') = <<>>
          /\ Keys(event_dict') \subseteq Classes
          /\ event_dict' = event_dict
          /\ active_events' = active_events
      ]_vars

C13_StartAndEndOnlyDegenerate ==
    \A c \in Classes :
        (NStarted(result, c) >= 1 /\ NEnded(result, c) >= 1) =>
            (total_frames <= 1 /\ ttl <= 0)

\* C14: every Event in _event_dict has 0 < current_ttl <= ttl.
C14_TtlRange ==
    \A c \in Keys(event_dict) :
        0 < Ev(c).current_ttl /\ Ev(c).current_ttl <= ttl

\* one Event is in its grace period after another one expired and was removed
C14_Witness ==
    \E c, d \in Classes :
        /\ c \in Keys(event_dict) /\ Ev(c).current_ttl < ttl
        /\ d \notin Keys(event_dict) /\ window_hits[d] >= 1 /\ absent_run[d] = ttl

\* C15: every signal carries the payload of the latest frame that
\* contained its class (for an Ended signal with ttl >= 1 an earlier frame
\* than the one of the call), every Event holds the payload of the latest
\* frame that contained its class, and a call whose frame lacks a tracked
\* class leaves detection and num_detected_frames of its Event unchanged.
C15_LatestPayload ==
    [][/\ \A i \in DOMAIN Signals(result') :
             Signals(result')[i].detection =
                 frame' - absent_run'[Signals(result')[i].k]
       /\ \A c \in Keys(event_dict') :
             Get(event_dict', c).detection = frame' - absent_run'[c]
       /\ \A c \in Keys(event_dict) \cap Keys(event_dict') :
             c \notin Range(predictions') =>
                 /\ Get(event_dict', c).detection = Ev(c).detection
                 /\ Get(event_dict', c).num_detected_frames =
                       Ev(c).num_detected_frames
      ]_vars

\* an Ended signal that carries the payload of the frame two calls back,
\* which is not the first frame
C15_Witness ==
    \E i \in DOMAIN Signals(result) :
        /\ Signals(result)[i].type = "Ended"
        /\ Signals(result)[i].detection = frame - 2
        /\ Signals(result)[i].detection >= 2

\* C17: the keys of _active_events are the classes of _event_dict whose
\* num_detected_frames is at least total_frames.
C17_ActiveIffAtThreshold ==
    DOMAIN active_events =
        {c \in Keys(event_dict) : Ev(c).num_detected_frames >= total_frames}

\* an active class next to a tracked class below the threshold
C17_Witness ==
    \E c, d \in Classes :
        /\ c \in DOMAIN active_events
        /\ d \in Keys(event_dict) /\ d \notin DOMAIN active_events
        /\ Ev(d).num_detected_frames < total_frames

\* C18 (bounded tracking window): with ttl >= 1, after the call for frame g
\* a class is a key of _event_dict iff it occurred in one of the frames
\* max(1, g - ttl + 1)..g, that is iff the number of latest consecutive
\* frames without it is below ttl and below g.
C18_TrackedIffSeenInWindow ==
    ttl >= 1 =>
        \A c \in Classes :
            c \in Keys(event_dict) <=>
                (absent_run[c] < ttl /\ absent_run[c] < frame)

\* a class seen earlier has been absent for ttl >= 2 frames and is no
\* longer tracked, another one is in its grace period
C18_Witness ==
    \E c, d \in Classes :
        /\ ttl >= 2
        /\ absent_run[c] = ttl /\ absent_run[c] < frame
        /\ window_hits[c] >= 1 /\ c \notin Keys(event_dict)
        /\ d \in Keys(event_dict) /\ absent_run[d] = 1

\* C19: with ttl >= 1, a call returns a Started signal for a class only if
\* its payload contains the class and an Ended signal for a class only if
\* its payload does not contain the class.
C19_SignalsMatchPayload ==
    ttl >= 1 =>
        \A c \in Classes :
            /\ NStarted(result, c) >= 1 => c \in Range(predictions)
            /\ NEnded(result, c) >= 1 => c \notin Range(predictions)

\* one call started a class of its payload and ended a class not in it
C19_Witness ==
    \E c, d \in Classes :
        /\ ttl >= 1
        /\ NStarted(result, c) = 1 /\ c \in Range(predictions)
        /\ NEnded(result, d) = 1 /\ d \notin Range(predictions)
        /\ frame >= 3

\* C16: alerta returns True iff at least one prediction of the list, at any
\* position, has classId 'backpack' or 'handbag', and False otherwise, also
\* for the empty list.
C16_AlertaAnyPosition ==
    alerta_result # NotCalled =>
        alerta_result =
            (IF \E i \in DOMAIN alerta_predictions :
                   alerta_predictions[i] \in {"backpack", "handbag"}
             THEN PyTrue ELSE PyFalse)

\* C20 (per-class independence): the lifecycle of a class depends only on
\* the number of its own occurrences in every frame.  Two frame sequences in
\* which class c occurs equally often in every frame have the same
\* projection on c, so it is enough, and necessary, that every frame
\* sequence gives c the lifecycle its projection on c gives it: after every
\* call the tracker and the shadow tracker of c returned equally many
\* Started and equally many Ended signals for c in that call (so the frames
\* of these signals are identical), and they agree on whether c is tracked
\* and active and on num_detected_frames and current_ttl of its Event.
C20_PerClassIndependence ==
    \A c \in Classes :
        /\ NStarted(result, c) = NStarted(shadow[c].result, c)
        /\ NEnded(result, c) = NEnded(shadow[c].result, c)
        /\ (c \in Keys(event_dict)) <=> (c \in Keys(shadow[c].event_dict))
        /\ (c \in DOMAIN active_events) <=> (c \in DOMAIN shadow[c].active_events)
        /\ c \in Keys(event_dict) =>
              /\ Ev(c).num_detected_frames =
                    Get(shadow[c].event_dict, c).num_detected_frames
              /\ Ev(c).current_ttl = Get(shadow[c].event_dict, c).current_ttl

\* a class was started and ended while the other class, absent from the
\* shadow's frames, was tracked and started next to it
C20_Witness ==
    \E c, d \in Classes :
        /\ c # d
        /\ ttl >= 1
        /\ starts_emitted[c] >= 1 /\ NEnded(shadow[c].result, c) = 1
        /\ d \in DOMAIN active_events
        /\ shadow[c].uuid_count < uuid_count

====
